---- MODULE Spec2Model ----
(***************************************************************************)
(* TLS support for CCSR clients (src/ccsr/tls.rs): the serde wrappers      *)
(* Identity and Certificate around reqwest / native_tls.                   *)
(*                                                                         *)
(* The wrappers are pure constructors and conversions.  The state of the   *)
(* model is the environment they run in: the values that are alive, the    *)
(* serialized forms that exist, the outcome of the last call, and what the *)
(* TLS libraries have answered so far.  A library routine is a function of *)
(* its arguments: its answer for an argument is chosen the first time the  *)
(* argument is asked about and is the same ever after (lib).               *)
(***************************************************************************)
EXTENDS Naturals, Sequences, FiniteSets, TLC

\* The calls made in one run.
MaxSteps == 3

\* The byte buffers callers hand in: the empty one, one that is a prefix of
\* another, and two of one length that differ in one byte only.
Buffers == {<<>>, <<0>>, <<0, 1>>, <<1, 1>>}

\* The buffers of the runs that mix every operation of both types.
FewBuffers == {<<>>, <<0, 1>>}

\* The passwords callers hand in; the empty one is allowed.
Passwords == {"", "pw"}

\* The errors the libraries report.
LibErrors == {"builder", "decode"}

VARIABLES lib, ids, certs, wire, out, aborted, steps
vars == <<lib, ids, certs, wire, out, aborted, steps>>

----------------------------------------------------------------------------
\* The libraries' routines.

\* reqwest::Identity::from_pem(&pem)
ReqwestIdentityFromPem(pem) ==
    [fn |-> "reqwest::Identity::from_pem", bytes |-> pem, pass |-> ""]

\* reqwest::Identity::from_pkcs12_der(&der, password)
ReqwestIdentityFromPkcs12Der(der, password) ==
    [fn |-> "reqwest::Identity::from_pkcs12_der", bytes |-> der, pass |-> password]

\* native_tls::Certificate::from_pem(pem)
NativeCertificateFromPem(pem) ==
    [fn |-> "native_tls::Certificate::from_pem", bytes |-> pem, pass |-> ""]

\* native_tls::Certificate::to_der(), of the certificate parsed from pem
NativeCertificateToDer(pem) ==
    [fn |-> "native_tls::Certificate::to_der", bytes |-> pem, pass |-> ""]

\* native_tls::Certificate::from_der(der)
NativeCertificateFromDer(der) ==
    [fn |-> "native_tls::Certificate::from_der", bytes |-> der, pass |-> ""]

\* reqwest::Certificate::from_der(&self.der).  Nothing in tls.rs relates this
\* parser to native_tls's: the two answer independently.
ReqwestCertificateFromDer(der) ==
    [fn |-> "reqwest::Certificate::from_der", bytes |-> der, pass |-> ""]

LibOk(der) == [ok |-> TRUE, err |-> "", der |-> der]
LibErr(e) == [ok |-> FALSE, err |-> e, der |-> <<>>]

\* What a routine may answer: Ok(value) or Err(e).  Only to_der's value is
\* looked at: it is a buffer, one of B.
Answers(q, B) ==
    {LibErr(e) : e \in LibErrors} \cup
    (IF q.fn = "native_tls::Certificate::to_der"
       THEN {LibOk(d) : d \in B}
       ELSE {LibOk(<<>>)})

\* The library memo after routine q has answered a.
Asked(memo, q, a) == IF q \in DOMAIN memo THEN memo ELSE memo @@ (q :> a)

\* Routine q answers a: the answer it gave before, or else any answer.
Answer(memo, q, a) == q \in DOMAIN memo => a = memo[q]

----------------------------------------------------------------------------
\* The wrappers' types.

\* CertDetails::PEM(Vec<u8>)
PEM(pem) == [tag |-> "PEM", f0 |-> pem]

\* CertDetails::DER(Vec<u8>, String)
DER(der, pass) == [tag |-> "DER", f0 |-> der, f1 |-> pass]

\* struct Identity { cert: CertDetails }
Identity(cert) == [cert |-> cert]

\* struct Certificate { der: Vec<u8> }
Certificate(der) == [der |-> der]

IdentityValues(B) ==
    {Identity(PEM(b)) : b \in B} \cup
    {Identity(DER(b, p)) : b \in B, p \in Passwords}

CertificateValues(B) == {Certificate(b) : b \in B}

\* A copy that stops one byte short.
ToVec_short(slice) == [k \in 1..(Len(slice) - 1) |-> slice[k]]

\* pem.into(): the slice copied into a fresh Vec<u8>, byte by byte.
ToVec(slice) == [k \in 1..Len(slice) |-> slice[k]]

\* password.to_string()
StrToString(s) == s

\* Vec<u8>::clone(): a fresh buffer with the same bytes.
VecClone(v) == [k \in 1..Len(v) |-> v[k]]

\* Vec<u8> == Vec<u8>: same length and the same byte at every index.
VecEq(a, b) == Len(a) = Len(b) /\ \A k \in 1..Len(a) : a[k] = b[k]

\* String == String
StrEq(s, t) == s = t

\* #[derive(Clone)] on CertDetails
CertDetailsClone(c) ==
    IF c.tag = "PEM"
      THEN PEM(VecClone(c.f0))
      ELSE DER(VecClone(c.f0), StrToString(c.f1))

\* An equality that leaves the password out.
CertDetailsEq_no_password(c, d) ==
    CASE c.tag = "PEM" /\ d.tag = "PEM" -> VecEq(c.f0, d.f0)
      [] c.tag = "DER" /\ d.tag = "DER" -> VecEq(c.f0, d.f0)
      [] OTHER -> FALSE

\* #[derive(PartialEq)] on CertDetails: the variant, then field by field.
CertDetailsEq(c, d) ==
    CASE c.tag = "PEM" /\ d.tag = "PEM" -> VecEq(c.f0, d.f0)
      [] c.tag = "DER" /\ d.tag = "DER" -> VecEq(c.f0, d.f0) /\ StrEq(c.f1, d.f1)
      [] OTHER -> FALSE

\* #[derive(Clone)] on Identity
IdentityClone(i) == Identity(CertDetailsClone(i.cert))

\* #[derive(PartialEq)] on Identity
IdentityEq(i, j) == CertDetailsEq(i.cert, j.cert)

\* #[derive(Clone)] on Certificate
CertificateClone(c) == Certificate(VecClone(c.der))

\* #[derive(PartialEq)] on Certificate
CertificateEq(c, d) == VecEq(c.der, d.der)

----------------------------------------------------------------------------
\* Results and the constructors.

\* Result::Ok, Result::Err, and a panic (Result::expect on an Err).
Ok(v) == [kind |-> "Ok", val |-> v, err |-> ""]
Err(e) == [kind |-> "Err", val |-> <<>>, err |-> e]
Panic(msg) == [kind |-> "Panic", val |-> <<>>, err |-> msg]

\* A from_pem that unwraps the parser's result instead of returning its error.
Identity_from_pem_unwrap(pem, parsed) ==
    IF ~parsed.ok
      THEN Panic("unwrap on an Err value")
      ELSE Ok(Identity(PEM(ToVec(pem))))

\* Identity::from_pem, given the answer of reqwest::Identity::from_pem(&pem).
Identity_from_pem(pem, parsed) ==
    IF ~parsed.ok
      THEN Err(parsed.err)
      ELSE Ok(Identity(PEM(ToVec(pem))))

\* A from_pkcs12_der that forgets the password it validated with.
Identity_from_pkcs12_der_no_password(der, password, parsed) ==
    IF ~parsed.ok
      THEN Err(parsed.err)
      ELSE Ok(Identity(DER(ToVec(der), "")))

\* A from_pkcs12_der that drops the decoder's result without looking at it.
Identity_from_pkcs12_der_unchecked(der, password, parsed) ==
    Ok(Identity(DER(ToVec(der), StrToString(password))))

\* Identity::from_pkcs12_der, given the answer of
\* reqwest::Identity::from_pkcs12_der(&der, password).
Identity_from_pkcs12_der(der, password, parsed) ==
    IF ~parsed.ok
      THEN Err(parsed.err)
      ELSE Ok(Identity(DER(ToVec(der), StrToString(password))))

\* A conversion that runs the PEM routine on either variant.
Identity_into_parse_pem_only(self) == ReqwestIdentityFromPem(self.cert.f0)

\* The routine Into<reqwest::Identity> runs on self.cert.
Identity_into_parse(self) ==
    IF self.cert.tag = "PEM"
      THEN ReqwestIdentityFromPem(self.cert.f0)
      ELSE ReqwestIdentityFromPkcs12Der(self.cert.f0, self.cert.f1)

\* Into<reqwest::Identity>, given the routine's answer: the native identity,
\* or expect's panic.
Identity_into(self, parsed) ==
    IF parsed.ok
      THEN Ok([native |-> Identity_into_parse(self)])
      ELSE Panic("known to be a valid identity")

\* Certificate::from_pem, given the answers of native_tls::Certificate::from_pem(pem)
\* and of to_der() on what it parsed: either `?` returns the library's error.
Certificate_from_pem(pem, parsed, encoded) ==
    IF ~parsed.ok
      THEN Err(parsed.err)
      ELSE IF ~encoded.ok
        THEN Err(encoded.err)
        ELSE Ok(Certificate(encoded.der))

\* A from_der that stores what the parsed object holds, not the input.
Certificate_from_der_reencoded(der, parsed) ==
    IF ~parsed.ok
      THEN Err(parsed.err)
      ELSE Ok(Certificate(parsed.der))

\* Certificate::from_der, given the answer of native_tls::Certificate::from_der(der).
Certificate_from_der(der, parsed) ==
    IF ~parsed.ok
      THEN Err(parsed.err)
      ELSE Ok(Certificate(ToVec(der)))

\* The routine Into<reqwest::Certificate> runs on self.der.
Certificate_into_parse(self) == ReqwestCertificateFromDer(self.der)

\* Into<reqwest::Certificate>, given the routine's answer.
Certificate_into(self, parsed) ==
    IF parsed.ok
      THEN Ok([native |-> Certificate_into_parse(self)])
      ELSE Panic("known to be a valid cert")

----------------------------------------------------------------------------
\* #[derive(Serialize, Deserialize)]: a value is written as the calls the
\* derived impls make on a serializer, and read back from them.

Tok(k, s, n) == [k |-> k, s |-> s, n |-> n]

\* Vec<u8>: serialize_seq(Some(len)), one serialize_u8 per element, end.
SerVec(v) ==
    <<Tok("Seq", "", Len(v))>> \o [k \in 1..Len(v) |-> Tok("U8", "", v[k])]
        \o <<Tok("SeqEnd", "", 0)>>

\* A serializer that writes DER's fields in the other order.
SerCertDetails_swapped(c) ==
    IF c.tag = "PEM"
      THEN <<Tok("NewtypeVariant", "PEM", 0)>> \o SerVec(c.f0)
      ELSE <<Tok("TupleVariant", "DER", 2), Tok("Str", c.f1, 0)>> \o SerVec(c.f0)
               \o <<Tok("TupleVariantEnd", "", 0)>>

\* CertDetails: PEM is a newtype variant, DER a tuple variant of two fields.
SerCertDetails(c) ==
    IF c.tag = "PEM"
      THEN <<Tok("NewtypeVariant", "PEM", 0)>> \o SerVec(c.f0)
      ELSE <<Tok("TupleVariant", "DER", 2)>> \o SerVec(c.f0)
               \o <<Tok("Str", c.f1, 0), Tok("TupleVariantEnd", "", 0)>>

\* Identity: a struct of one field, cert.
SerIdentity(i) ==
    <<Tok("Struct", "Identity", 1), Tok("Field", "cert", 0)>>
        \o SerCertDetails(i.cert) \o <<Tok("StructEnd", "", 0)>>

\* Certificate: a struct of one field, der.
SerCertificate(c) ==
    <<Tok("Struct", "Certificate", 1), Tok("Field", "der", 0)>>
        \o SerVec(c.der) \o <<Tok("StructEnd", "", 0)>>

\* The token at pos, or an end-of-input mark.
At(ts, pos) == IF pos \in 1..Len(ts) THEN ts[pos] ELSE Tok("Eof", "", 0)

\* A deserializer's result: the value and the position after it.
Read(v, next) == [ok |-> TRUE, val |-> v, next |-> next]
Unread == [ok |-> FALSE, val |-> <<>>, next |-> 0]

\* Vec<u8> at pos: the length, that many bytes, the end mark.
DeVec(ts, pos) ==
    LET n == At(ts, pos).n
    IN IF /\ At(ts, pos).k = "Seq"
          /\ \A k \in 1..n : At(ts, pos + k).k = "U8"
          /\ At(ts, pos + n + 1).k = "SeqEnd"
         THEN Read([k \in 1..n |-> At(ts, pos + k).n], pos + n + 2)
         ELSE Unread

\* CertDetails at pos: the variant by name, then its fields in order.
DeCertDetails(ts, pos) ==
    LET t == At(ts, pos)
        v == DeVec(ts, pos + 1)
    IN CASE t.k = "NewtypeVariant" /\ t.s = "PEM" /\ v.ok ->
              Read(PEM(v.val), v.next)
         [] /\ t.k = "TupleVariant" /\ t.s = "DER" /\ v.ok
            /\ At(ts, v.next).k = "Str"
            /\ At(ts, v.next + 1).k = "TupleVariantEnd" ->
              Read(DER(v.val, At(ts, v.next).s), v.next + 2)
         [] OTHER -> Unread

\* Identity from a whole input.
DeIdentity(ts) ==
    LET c == DeCertDetails(ts, 3)
    IN IF /\ At(ts, 1) = Tok("Struct", "Identity", 1)
          /\ At(ts, 2) = Tok("Field", "cert", 0)
          /\ c.ok
          /\ At(ts, c.next).k = "StructEnd"
          /\ c.next = Len(ts)
         THEN Ok(Identity(c.val))
         ELSE Err("deserialize")

\* Certificate from a whole input.
DeCertificate(ts) ==
    LET v == DeVec(ts, 3)
    IN IF /\ At(ts, 1) = Tok("Struct", "Certificate", 1)
          /\ At(ts, 2) = Tok("Field", "der", 0)
          /\ v.ok
          /\ At(ts, v.next).k = "StructEnd"
          /\ v.next = Len(ts)
         THEN Ok(Certificate(v.val))
         ELSE Err("deserialize")

----------------------------------------------------------------------------
\* The environment: the values alive and the serialized forms in existence,
\* with where each came from.

\* Where a value came from: a constructor and its arguments, or foreign input.
Origin(ctor, bytes, pass) == [ctor |-> ctor, bytes |-> bytes, pass |-> pass]
Foreign == Origin("foreign", <<>>, "")

\* A live value: what it holds, its origin, and the call that returned it.
Live(val, origin, via) == [val |-> val, origin |-> origin, via |-> via]

\* A serialized form: its tokens, and the type and the live value written (src).
Written(type, ts, src) == [type |-> type, ts |-> ts, src |-> src]

\* The outcome of a call.
Call(op, self, other, bytes, pass, res) ==
    [op |-> op, self |-> self, other |-> other, bytes |-> bytes, pass |-> pass,
     res |-> res]

Init ==
    /\ lib = <<>>
    /\ ids = {}
    /\ certs = {}
    /\ wire = {}
    /\ out = Call("none", <<>>, <<>>, <<>>, "", Ok(<<>>))
    /\ aborted = FALSE
    /\ steps = 0

\* A call can be made: the process is alive, and the run has calls left.
Running == ~aborted /\ steps < MaxSteps

\* Identity::from_pem(pem)
IdFromPem(B) ==
    /\ Running
    /\ steps' = steps + 1
    /\ \E pem \in B :
         LET q == ReqwestIdentityFromPem(pem)
         IN \E a \in Answers(q, B) :
              LET r == Identity_from_pem(pem, a)
              IN /\ Answer(lib, q, a)
                 /\ lib' = Asked(lib, q, a)
                 /\ out' = Call("Identity::from_pem", <<>>, <<>>, pem, "", r)
                 /\ ids' = IF r.kind = "Ok"
                             THEN ids \cup {Live(r.val, Origin("from_pem", pem, ""), "new")}
                             ELSE ids
    /\ UNCHANGED <<certs, wire, aborted>>

\* Identity::from_pkcs12_der(der, password)
IdFromPkcs12Der(B) ==
    /\ Running
    /\ steps' = steps + 1
    /\ \E der \in B, password \in Passwords :
         LET q == ReqwestIdentityFromPkcs12Der(der, password)
         IN \E a \in Answers(q, B) :
              LET r == Identity_from_pkcs12_der(der, password, a)
              IN /\ Answer(lib, q, a)
                 /\ lib' = Asked(lib, q, a)
                 /\ out' = Call("Identity::from_pkcs12_der", <<>>, <<>>, der, password, r)
                 /\ ids' = IF r.kind = "Ok"
                             THEN ids \cup {Live(r.val,
                                                 Origin("from_pkcs12_der", der, password),
                                                 "new")}
                             ELSE ids
    /\ UNCHANGED <<certs, wire, aborted>>

\* identity.clone()
IdClone ==
    /\ Running
    /\ steps' = steps + 1
    /\ \E e \in ids :
         /\ out' = Call("Identity::clone", e, <<>>, <<>>, "", Ok(IdentityClone(e.val)))
         /\ ids' = ids \cup {Live(IdentityClone(e.val), e.origin, "clone")}
    /\ UNCHANGED <<lib, certs, wire, aborted>>

\* identity == other
IdEq ==
    /\ Running
    /\ steps' = steps + 1
    /\ \E e \in ids, f \in ids :
         out' = Call("Identity::eq", e, f, <<>>, "", Ok(IdentityEq(e.val, f.val)))
    /\ UNCHANGED <<lib, ids, certs, wire, aborted>>

\* identity.into(): consumes the value; a panic ends the process.
IdInto(B) ==
    /\ Running
    /\ steps' = steps + 1
    /\ \E e \in ids :
         LET q == Identity_into_parse(e.val)
         IN \E a \in Answers(q, B) :
              LET r == Identity_into(e.val, a)
              IN /\ Answer(lib, q, a)
                 /\ lib' = Asked(lib, q, a)
                 /\ out' = Call("Identity::into", e, <<>>, <<>>, "", r)
                 /\ ids' = ids \ {e}
                 /\ aborted' = (r.kind = "Panic")
    /\ UNCHANGED <<certs, wire>>

\* identity.serialize(serializer)
IdSerialize ==
    /\ Running
    /\ steps' = steps + 1
    /\ \E e \in ids :
         /\ out' = Call("Identity::serialize", e, <<>>, <<>>, "", Ok(SerIdentity(e.val)))
         /\ wire' = wire \cup {Written("Identity", SerIdentity(e.val), e)}
    /\ UNCHANGED <<lib, ids, certs, aborted>>

\* Identity::deserialize(deserializer), reading one input to its end.
IdDeserialize ==
    /\ Running
    /\ steps' = steps + 1
    /\ \E w \in wire :
         LET r == DeIdentity(w.ts)
         IN /\ out' = Call("Identity::deserialize", <<>>, w, <<>>, "", r)
            /\ ids' = IF r.kind = "Ok"
                        THEN ids \cup {Live(r.val, w.src.origin, "deserialize")}
                        ELSE ids
            /\ wire' = wire \ {w}
    /\ UNCHANGED <<lib, certs, aborted>>

\* Well-formed serialized input that no value of this process was written to.
Receive(B) ==
    /\ Running
    /\ steps' = steps + 1
    /\ \/ \E v \in IdentityValues(B) :
            wire' = wire \cup {Written("Identity", SerIdentity(v),
                                        Live(v, Foreign, "foreign"))}
       \/ \E v \in CertificateValues(B) :
            wire' = wire \cup {Written("Certificate", SerCertificate(v),
                                        Live(v, Foreign, "foreign"))}
    /\ out' = Call("receive", <<>>, <<>>, <<>>, "", Ok(<<>>))
    /\ UNCHANGED <<lib, ids, certs, aborted>>

\* Certificate::from_pem(pem)
CertFromPem(B) ==
    /\ Running
    /\ steps' = steps + 1
    /\ \E pem \in B :
         LET q == NativeCertificateFromPem(pem)
             t == NativeCertificateToDer(pem)
         IN \E a \in Answers(q, B) :
              /\ Answer(lib, q, a)
              /\ \/ \* from_pem(pem)? returns the error
                    /\ ~a.ok
                    /\ lib' = Asked(lib, q, a)
                    /\ out' = Call("Certificate::from_pem", <<>>, <<>>, pem, "",
                                   Certificate_from_pem(pem, a, a))
                    /\ certs' = certs
                 \/ \* to_der() runs on the parsed certificate
                    /\ a.ok
                    /\ \E b \in Answers(t, B) :
                         LET r == Certificate_from_pem(pem, a, b)
                         IN /\ Answer(lib, t, b)
                            /\ lib' = Asked(Asked(lib, q, a), t, b)
                            /\ out' = Call("Certificate::from_pem", <<>>, <<>>, pem, "", r)
                            /\ certs' = IF r.kind = "Ok"
                                          THEN certs \cup
                                                 {Live(r.val, Origin("from_pem", pem, ""), "new")}
                                          ELSE certs
    /\ UNCHANGED <<ids, wire, aborted>>

\* Certificate::from_der(der)
CertFromDer(B) ==
    /\ Running
    /\ steps' = steps + 1
    /\ \E der \in B :
         LET q == NativeCertificateFromDer(der)
         IN \E a \in Answers(q, B) :
              LET r == Certificate_from_der(der, a)
              IN /\ Answer(lib, q, a)
                 /\ lib' = Asked(lib, q, a)
                 /\ out' = Call("Certificate::from_der", <<>>, <<>>, der, "", r)
                 /\ certs' = IF r.kind = "Ok"
                               THEN certs \cup {Live(r.val, Origin("from_der", der, ""), "new")}
                               ELSE certs
    /\ UNCHANGED <<ids, wire, aborted>>

\* certificate.clone()
CertClone ==
    /\ Running
    /\ steps' = steps + 1
    /\ \E e \in certs :
         /\ out' = Call("Certificate::clone", e, <<>>, <<>>, "",
                        Ok(CertificateClone(e.val)))
         /\ certs' = certs \cup {Live(CertificateClone(e.val), e.origin, "clone")}
    /\ UNCHANGED <<lib, ids, wire, aborted>>

\* certificate == other
CertEq ==
    /\ Running
    /\ steps' = steps + 1
    /\ \E e \in certs, f \in certs :
         out' = Call("Certificate::eq", e, f, <<>>, "", Ok(CertificateEq(e.val, f.val)))
    /\ UNCHANGED <<lib, ids, certs, wire, aborted>>

\* certificate.into(): consumes the value; a panic ends the process.
CertInto(B) ==
    /\ Running
    /\ steps' = steps + 1
    /\ \E e \in certs :
         LET q == Certificate_into_parse(e.val)
         IN \E a \in Answers(q, B) :
              LET r == Certificate_into(e.val, a)
              IN /\ Answer(lib, q, a)
                 /\ lib' = Asked(lib, q, a)
                 /\ out' = Call("Certificate::into", e, <<>>, <<>>, "", r)
                 /\ certs' = certs \ {e}
                 /\ aborted' = (r.kind = "Panic")
    /\ UNCHANGED <<ids, wire>>

\* certificate.serialize(serializer)
CertSerialize ==
    /\ Running
    /\ steps' = steps + 1
    /\ \E e \in certs :
         /\ out' = Call("Certificate::serialize", e, <<>>, <<>>, "",
                        Ok(SerCertificate(e.val)))
         /\ wire' = wire \cup {Written("Certificate", SerCertificate(e.val), e)}
    /\ UNCHANGED <<lib, ids, certs, aborted>>

\* Certificate::deserialize(deserializer), reading one input to its end.
CertDeserialize ==
    /\ Running
    /\ steps' = steps + 1
    /\ \E w \in wire :
         LET r == DeCertificate(w.ts)
         IN /\ out' = Call("Certificate::deserialize", <<>>, w, <<>>, "", r)
            /\ certs' = IF r.kind = "Ok"
                          THEN certs \cup {Live(r.val, w.src.origin, "deserialize")}
                          ELSE certs
            /\ wire' = wire \ {w}
    /\ UNCHANGED <<lib, ids, aborted>>

\* Every public operation of both types.
Next ==
    \/ IdFromPem(FewBuffers) \/ IdFromPkcs12Der(FewBuffers)
    \/ IdClone \/ IdEq \/ IdInto(FewBuffers)
    \/ IdSerialize \/ IdDeserialize
    \/ CertFromPem(FewBuffers) \/ CertFromDer(FewBuffers)
    \/ CertClone \/ CertEq \/ CertInto(FewBuffers)
    \/ CertSerialize \/ CertDeserialize
    \/ Receive(FewBuffers)

Spec == Init /\ [][Next]_vars

\* Identity alone: constructed, cloned, compared, converted.
IdNext ==
    \/ IdFromPem(Buffers) \/ IdFromPkcs12Der(Buffers)
    \/ IdClone \/ IdEq \/ IdInto(Buffers)

IdSpec == Init /\ [][IdNext]_vars

\* Certificate alone: constructed, cloned, compared, converted.
CertNext ==
    \/ CertFromPem(Buffers) \/ CertFromDer(Buffers)
    \/ CertClone \/ CertEq \/ CertInto(Buffers)

CertSpec == Init /\ [][CertNext]_vars

----------------------------------------------------------------------------
\* Properties.

Constructors == {"from_pem", "from_pkcs12_der", "from_der"}

\* The library's answer for q, once it has given one.
Accepted(q) == q \in DOMAIN lib /\ lib[q].ok
Rejected(q) == q \in DOMAIN lib /\ ~lib[q].ok

\* C1: converting an Identity that a constructor returned, or a clone of one,
\* never panics: the conversion returns the native identity that the same
\* routine parses from the bytes (and password) the constructor was given.
IdentityRoundTrip ==
    out.op = "Identity::into" /\ out.self.origin.ctor \in Constructors =>
        /\ ~aborted
        /\ out.res.kind = "Ok"
        /\ out.res.val.native =
             (IF out.self.origin.ctor = "from_pem"
                THEN ReqwestIdentityFromPem(out.self.origin.bytes)
                ELSE ReqwestIdentityFromPkcs12Der(out.self.origin.bytes,
                                                  out.self.origin.pass))

\* A clone of an Identity built from PKCS#12 bytes and a password was converted.
IdentityRoundTripWitness ==
    /\ out.op = "Identity::into"
    /\ out.self.via = "clone"
    /\ out.self.origin = Origin("from_pkcs12_der", <<0, 1>>, "pw")
    /\ out.res.kind = "Ok"

\* C3: when the PEM identity parser rejects b, Identity::from_pem(b) returns Err
\* with the parser's error, no Identity built from b exists, and nothing panics.
FromPemRejected ==
    out.op = "Identity::from_pem" /\ Rejected(ReqwestIdentityFromPem(out.bytes)) =>
        /\ out.res.kind = "Err"
        /\ out.res.err = lib[ReqwestIdentityFromPem(out.bytes)].err
        /\ ~aborted
        /\ \A e \in ids :
             ~(e.origin.ctor = "from_pem" /\ e.origin.bytes = out.bytes)

\* The parser rejected a buffer with one error after another with the other.
FromPemRejectedWitness ==
    /\ out.op = "Identity::from_pem"
    /\ out.res.kind = "Err"
    /\ out.res.err = "decode"
    /\ \E b \in Buffers :
         /\ Rejected(ReqwestIdentityFromPem(b))
         /\ lib[ReqwestIdentityFromPem(b)].err = "builder"

\* C4: Identity::from_pkcs12_der(d, p) returns Ok exactly when the PKCS#12
\* decoder accepts (d, p), and then the Identity is the DER variant holding d
\* and p; when the decoder rejects (d, p) it returns the decoder's error and no
\* Identity built from (d, p) exists.
FromPkcs12Der ==
    out.op = "Identity::from_pkcs12_der" =>
        LET q == ReqwestIdentityFromPkcs12Der(out.bytes, out.pass)
            made == Live(Identity(DER(out.bytes, out.pass)),
                         Origin("from_pkcs12_der", out.bytes, out.pass), "new")
        IN /\ q \in DOMAIN lib
           /\ (out.res.kind = "Ok") <=> lib[q].ok
           /\ lib[q].ok =>
                /\ out.res.val.cert.tag = "DER"
                /\ out.res.val.cert.f0 = out.bytes
                /\ out.res.val.cert.f1 = out.pass
                /\ made \in ids
           /\ ~lib[q].ok =>
                /\ out.res.kind = "Err"
                /\ out.res.err = lib[q].err
                /\ \A e \in ids :
                     ~(/\ e.origin.ctor = "from_pkcs12_der"
                       /\ e.origin.bytes = out.bytes
                       /\ e.origin.pass = out.pass)

\* The decoder accepted d with one password, and the call with another
\* password for the same d returned an error.
FromPkcs12DerWitness ==
    /\ out.op = "Identity::from_pkcs12_der"
    /\ out.res.kind = "Err"
    /\ out.bytes = <<0, 1>>
    /\ \E p \in Passwords :
         /\ p # out.pass
         /\ Accepted(ReqwestIdentityFromPkcs12Der(out.bytes, p))
         /\ \E e \in ids : e.val = Identity(DER(out.bytes, p))

\* C5: when the PEM identity parser accepts b, Identity::from_pem(b) returns Ok
\* and the Identity is the PEM variant holding exactly the bytes of b and
\* nothing else.
FromPemStores ==
    out.op = "Identity::from_pem" /\ Accepted(ReqwestIdentityFromPem(out.bytes)) =>
        /\ out.res.kind = "Ok"
        /\ DOMAIN out.res.val = {"cert"}
        /\ DOMAIN out.res.val.cert = {"tag", "f0"}
        /\ out.res.val.cert.tag = "PEM"
        /\ Len(out.res.val.cert.f0) = Len(out.bytes)
        /\ \A k \in 1..Len(out.bytes) : out.res.val.cert.f0[k] = out.bytes[k]

\* A buffer of two different bytes was accepted and stored.
FromPemStoresWitness ==
    /\ out.op = "Identity::from_pem"
    /\ out.res.kind = "Ok"
    /\ out.bytes = <<0, 1>>
    /\ \E e \in ids : e.val = Identity(PEM(<<0, 1>>)) /\ e.via = "new"

\* C7: when the native DER parser accepts d, Certificate::from_der(d) returns Ok
\* and the Certificate holds exactly the bytes of d; when the parser rejects d
\* it returns the parser's error and no Certificate built from d exists.
FromDerStores ==
    out.op = "Certificate::from_der" =>
        LET q == NativeCertificateFromDer(out.bytes)
        IN /\ q \in DOMAIN lib
           /\ lib[q].ok =>
                /\ out.res.kind = "Ok"
                /\ DOMAIN out.res.val = {"der"}
                /\ Len(out.res.val.der) = Len(out.bytes)
                /\ \A k \in 1..Len(out.bytes) : out.res.val.der[k] = out.bytes[k]
           /\ ~lib[q].ok =>
                /\ out.res.kind = "Err"
                /\ out.res.err = lib[q].err
                /\ \A e \in certs :
                     ~(e.origin.ctor = "from_der" /\ e.origin.bytes = out.bytes)

\* A DER buffer of two different bytes was accepted and stored.
FromDerStoresWitness ==
    /\ out.op = "Certificate::from_der"
    /\ out.res.kind = "Ok"
    /\ out.bytes = <<0, 1>>
    /\ \E e \in certs : e.val = Certificate(<<0, 1>>) /\ e.via = "new"

\* Lemma: Certificate::from_pem returns Ok exactly when the native library
\* parses the PEM and encodes what it parsed, and the Certificate then holds
\* that encoding and nothing else; otherwise it returns the error of the step
\* that failed, and to_der is not called on a PEM that did not parse.
CertificateFromPemStoresDer ==
    out.op = "Certificate::from_pem" =>
        LET q == NativeCertificateFromPem(out.bytes)
            t == NativeCertificateToDer(out.bytes)
        IN /\ q \in DOMAIN lib
           /\ ~lib[q].ok =>
                /\ out.res.kind = "Err"
                /\ out.res.err = lib[q].err
                /\ t \notin DOMAIN lib
           /\ lib[q].ok =>
                /\ t \in DOMAIN lib
                /\ ~lib[t].ok => out.res.kind = "Err" /\ out.res.err = lib[t].err
                /\ lib[t].ok =>
                     /\ out.res.kind = "Ok"
                     /\ DOMAIN out.res.val = {"der"}
                     /\ out.res.val.der = lib[t].der

\* reqwest's DER parser has accepted every buffer it was given that the native
\* DER parser accepted or that the native library encoded.
ParsersAgree ==
    \A q \in DOMAIN lib :
        /\ q.fn = "reqwest::Certificate::from_der"
        /\ \/ Accepted(NativeCertificateFromDer(q.bytes))
           \/ \E t \in DOMAIN lib :
                /\ t.fn = "native_tls::Certificate::to_der"
                /\ lib[t].ok
                /\ lib[t].der = q.bytes
        => lib[q].ok

\* Lemma: as long as the parsers agree, converting a Certificate that a
\* constructor returned, or a clone of one, does not panic: into() hands
\* reqwest's parser the bytes the native library accepted or encoded.
CertificateRoundTripIfParsersAgree ==
    ParsersAgree =>
        (out.op = "Certificate::into" /\ out.self.origin.ctor \in Constructors =>
            out.res.kind = "Ok" /\ ~aborted)

\* C8: deserializing what serialize wrote of a constructed Identity or
\* Certificate returns a value equal to the one written: the same variant, the
\* same bytes, the same password.
SerdeRoundTrip ==
    /\ /\ out.op = "Identity::deserialize"
       /\ out.other.type = "Identity"
       /\ out.other.src.origin.ctor \in Constructors
       => /\ out.res.kind = "Ok"
          /\ IdentityEq(out.res.val, out.other.src.val)
          /\ out.res.val.cert.tag = out.other.src.val.cert.tag
          /\ out.res.val.cert.f0 = out.other.src.val.cert.f0
          /\ out.res.val.cert.tag = "DER" =>
               out.res.val.cert.f1 = out.other.src.val.cert.f1
    /\ /\ out.op = "Certificate::deserialize"
       /\ out.other.type = "Certificate"
       /\ out.other.src.origin.ctor \in Constructors
       => /\ out.res.kind = "Ok"
          /\ CertificateEq(out.res.val, out.other.src.val)
          /\ out.res.val.der = out.other.src.val.der

\* An Identity built from PKCS#12 bytes and a password was written and read back.
SerdeRoundTripWitness ==
    /\ out.op = "Identity::deserialize"
    /\ out.other.src.origin = Origin("from_pkcs12_der", <<0, 1>>, "pw")
    /\ out.res.kind = "Ok"
    /\ out.res.val = Identity(DER(<<0, 1>>, "pw"))

\* C9: two Identity values built by the same constructor compare equal exactly
\* when they were built from the same bytes and, for PKCS#12, the same password.
EqualityByInput ==
    /\ out.op = "Identity::eq"
    /\ out.self.origin.ctor \in Constructors
    /\ out.self.origin.ctor = out.other.origin.ctor
    => (out.res.val <=> /\ out.self.origin.bytes = out.other.origin.bytes
                        /\ out.self.origin.pass = out.other.origin.pass)

\* Two PKCS#12 identities of the same bytes and different passwords were
\* compared and found unequal.
EqualityByInputWitness ==
    /\ out.op = "Identity::eq"
    /\ out.self.origin.ctor = "from_pkcs12_der"
    /\ out.other.origin.ctor = "from_pkcs12_der"
    /\ out.self.origin.bytes = out.other.origin.bytes
    /\ out.self.origin.pass # out.other.origin.pass
    /\ out.res.val = FALSE

====
